---- MODULE Spec2Model ----
(***************************************************************************)
(* Model of interactive-git-delete (src/src/main.rs): the selection loop   *)
(* of main, the branch lister get_branches, the presenter get_branch_names *)
(* and the deletion step, over a repository of local branches.             *)
(*                                                                         *)
(* Strings are sequences of bytes (0..255), so that the ordering of names, *)
(* the UTF-8 decoding and the decoration of labels are computed and not    *)
(* assumed.  Object ids are 20 bytes, as git2::Oid.                        *)
(***************************************************************************)
EXTENDS Integers, Sequences, FiniteSets, TLC

\* ------------------------------------------------------------------ bounds

\* The most local branches a repository starts with.
MaxBranches == 3

\* The most lines the run prints before the loop is cut off.
MaxOut == 3

\* ------------------------------------------------------------ byte strings

\* "master", the literal of main.rs:28 and main.rs:119.
master == <<109, 97, 115, 116, 101, 114>>

\* "feature-x"
feature_x == <<102, 101, 97, 116, 117, 114, 101, 45, 120>>

\* "fix-y"
fix_y == <<102, 105, 120, 45, 121>>

\* "fix", a proper prefix of "fix-y"
fix == <<102, 105, 120>>

\* "f\xFF", a reference name that is not UTF-8
bad_name == <<102, 255>>

\* The names a local branch of the modelled repositories can carry.
BranchNames == {master, feature_x, fix_y, fix, bad_name}

\* HEAD designates no local branch (detached, or unborn).
NoBranch == <<>>

\* The three-way comparison of two byte strings, as Ord for String: byte by
\* byte, a proper prefix being smaller.
RECURSIVE StrCmp(_, _)
StrCmp(a, b) ==
    IF a = <<>> /\ b = <<>> THEN 0
    ELSE IF a = <<>> THEN -1
    ELSE IF b = <<>> THEN 1
    ELSE IF Head(a) < Head(b) THEN -1
    ELSE IF Head(a) > Head(b) THEN 1
    ELSE StrCmp(Tail(a), Tail(b))

StrLess(a, b) == StrCmp(a, b) < 0

IsCont(s, i) == i <= Len(s) /\ s[i] >= 128 /\ s[i] <= 191

\* String::from_utf8 accepts s: every scalar is well formed (no overlong form,
\* no surrogate, nothing above U+10FFFF).
RECURSIVE Utf8Valid(_)
Utf8Valid(s) ==
    IF s = <<>> THEN TRUE
    ELSE LET b == s[1]
             rest(n) == SubSeq(s, n + 1, Len(s))
         IN  IF b < 128 THEN Utf8Valid(rest(1))
             ELSE IF b >= 194 /\ b <= 223
                  THEN IsCont(s, 2) /\ Utf8Valid(rest(2))
             ELSE IF b = 224
                  THEN Len(s) >= 2 /\ s[2] >= 160 /\ s[2] <= 191
                       /\ IsCont(s, 3) /\ Utf8Valid(rest(3))
             ELSE IF b = 237
                  THEN Len(s) >= 2 /\ s[2] >= 128 /\ s[2] <= 159
                       /\ IsCont(s, 3) /\ Utf8Valid(rest(3))
             ELSE IF b >= 225 /\ b <= 239
                  THEN IsCont(s, 2) /\ IsCont(s, 3) /\ Utf8Valid(rest(3))
             ELSE IF b = 240
                  THEN Len(s) >= 2 /\ s[2] >= 144 /\ s[2] <= 191
                       /\ IsCont(s, 3) /\ IsCont(s, 4) /\ Utf8Valid(rest(4))
             ELSE IF b = 244
                  THEN Len(s) >= 2 /\ s[2] >= 128 /\ s[2] <= 143
                       /\ IsCont(s, 3) /\ IsCont(s, 4) /\ Utf8Valid(rest(4))
             ELSE IF b >= 241 /\ b <= 243
                  THEN IsCont(s, 2) /\ IsCont(s, 3) /\ IsCont(s, 4)
                       /\ Utf8Valid(rest(4))
             ELSE FALSE

\* ------------------------------------------------------- the object store

\* A 20-byte object id.
OidOf(k) == [i \in 1..20 |-> (k * 16 + i * 7) % 256]

\* The commits of the object store: id, committer time (seconds since the
\* epoch, offset in minutes) and raw message bytes.
Odb ==
    { [id |-> OidOf(1), seconds |-> 1000, offset |-> 120, message |-> <<97>>],
      [id |-> OidOf(2), seconds |-> 5000, offset |-> -300, message |-> <<98, 10>>],
      [id |-> OidOf(3), seconds |-> 0, offset |-> 0, message |-> <<255>>] }

\* The committer times (seconds, offset in minutes) of the commits the runs
\* over commit times read: around the epoch, around the ends of a day, far
\* from the epoch, with offsets on both sides of UTC and of a whole day.
TimePairs ==
    { -86401, -86400, -1, 0, 1, 86399, 1000000000 }
        \X { -720, -90, 0, 1, 330, 840, 1440 }

\* The id of the commit made at p, one id a pair.
TimeOid(p) ==
    [i \in 1..20 |-> IF i <= 10 THEN (p[1] + 86401 + i) % 251 ELSE (p[2] + 720 + i) % 241]

TimeCommits ==
    { [id |-> TimeOid(p), seconds |-> p[1], offset |-> p[2], message |-> <<116>>] :
         p \in TimePairs }

\* The ids a reference can hold; OidOf(4) names no commit of the store.
Oids == {OidOf(1), OidOf(2), OidOf(3), OidOf(4)}

HasCommit(id) == \E c \in Odb \cup TimeCommits : c.id = id

CommitOf(id) == CHOOSE c \in Odb \cup TimeCommits : c.id = id

\* ------------------------------------------------------------------- state

VARIABLES
    branches,        \* the repository's local branches: name -> tip id
    head,            \* the branch HEAD designates, or NoBranch
    colors,          \* whether the terminal takes ANSI styles
    pc,              \* where main stands
    err,             \* the Error main returned and the call that raised it
    local_branches,  \* main.rs:11, the records of this iteration
    branch_names,    \* main.rs:13, the labels of this iteration
    branch_index,    \* main.rs:25, the index picked, -1 when none
    out,             \* the lines printed to standard output
    input,           \* the user's last answer to a prompt
    hist             \* how the last iteration ended, and the records it had

vars == <<branches, head, colors, pc, err, local_branches, branch_names,
          branch_index, out, input, hist>>

\* ------------------------------------------------------------ the records

\* NaiveDateTime::from_timestamp(seconds, 0): a calendar day, counted from the
\* epoch's, and the second of that day; the division rounds down.
from_timestamp(seconds) == [days |-> seconds \div 86400, secs |-> seconds % 86400]

\* A mutation of the offset: Duration::seconds in the place of
\* Duration::minutes.
PlusSeconds(t, offset) ==
    [days |-> t.days + ((t.secs + offset) \div 86400),
     secs |-> (t.secs + offset) % 86400]

\* NaiveDateTime + Duration::minutes(offset): the seconds carry into the days.
PlusMinutes(t, offset) ==
    [days |-> t.days + ((t.secs + 60 * offset) \div 86400),
     secs |-> (t.secs + 60 * offset) % 86400]

\* Commit time as stored in the record (main.rs:86-89).
NormalTime(seconds, offset) == PlusMinutes(from_timestamp(seconds), offset)

\* struct Commit and struct Branch; `branch` is the handle on the reference,
\* which designates it by its raw name.
BranchRecord(n, c) ==
    [name |-> n,
     last_commit |-> [id |-> c.id,
                      message |-> c.message,
                      time |-> NormalTime(c.seconds, c.offset)],
     branch |-> n]

\* Branch::is_head: whether HEAD designates the handle's reference now.
is_head(b) == head = b.branch

\* v[i] of a Vec, indices from 0.
Index(v, i) == v[i + 1]

\* ------------------------------------------------------------ get_branches

NoError == [kind |-> "None", at |-> "None"]

\* Err(e) of the variant `kind`, raised by the call `at`.
Failure(kind, at) == [ok |-> FALSE, err |-> [kind |-> kind, at |-> at], val |-> <<>>]

Success(v) == [ok |-> TRUE, err |-> NoError, val |-> v]

\* The for loop of get_branches over the references in the order the
\* repository yields them; the first failure ends the call.
RECURSIVE CollectBranches(_, _)
CollectBranches(order, acc) ==
    IF order = <<>> THEN Success(acc)
    ELSE LET n == Head(order)
         IN  IF ~HasCommit(branches[n]) THEN Failure("GitError", "peel_to_commit")
             ELSE LET c == CommitOf(branches[n])
                  IN  IF ~Utf8Valid(c.message) THEN Failure("FromUtf8Error", "message")
                      ELSE IF ~Utf8Valid(n) THEN Failure("FromUtf8Error", "name")
                      ELSE CollectBranches(Tail(order),
                                           Append(acc, BranchRecord(n, c)))

\* A mutation of the comparison: the greater key goes first.
RECURSIVE InsertByNameDescending(_, _)
InsertByNameDescending(sorted, b) ==
    IF sorted = <<>> THEN <<b>>
    ELSE IF StrLess(Head(sorted).name, b.name) THEN <<b>> \o sorted
    ELSE <<Head(sorted)>> \o InsertByNameDescending(Tail(sorted), b)

\* Insertion of b behind the records whose key is not greater (a stable sort).
RECURSIVE InsertByName(_, _)
InsertByName(sorted, b) ==
    IF sorted = <<>> THEN <<b>>
    ELSE IF StrLess(b.name, Head(sorted).name) THEN <<b>> \o sorted
    ELSE <<Head(sorted)>> \o InsertByName(Tail(sorted), b)

RECURSIVE SortedFrom(_, _)
SortedFrom(v, acc) ==
    IF v = <<>> THEN acc ELSE SortedFrom(Tail(v), InsertByName(acc, Head(v)))

\* A mutation of the sort: the records stay in the order of iteration.
Unsorted(v) == v

\* branches.sort_by_key(|branch| branch.name.clone())
SortByName(v) == SortedFrom(v, <<>>)

\* A mutation of the loop: the records of the iteration before are used again
\* where there are any.
get_branches_once(order, readable) ==
    IF ~readable THEN Failure("GitError", "branches")
    ELSE IF hist.records # <<>> THEN Success(hist.records)
    ELSE LET r == CollectBranches(order, <<>>)
         IN  IF r.ok THEN Success(SortByName(r.val)) ELSE r

\* get_branches on a repository that yields its references in `order`;
\* `readable` is whether the iteration itself succeeds (main.rs:80-81).
get_branches(order, readable) ==
    IF ~readable THEN Failure("GitError", "branches")
    ELSE LET r == CollectBranches(order, <<>>)
         IN  IF r.ok THEN Success(SortByName(r.val)) ELSE r

\* -------------------------------------------------------- get_branch_names

\* console::style(s) with a colour: the SGR sequence around s when the
\* terminal takes colours, s itself otherwise.
Styled(code, s) ==
    IF colors THEN <<27, 91, 51, code, 109>> \o s \o <<27, 91, 48, 109>> ELSE s

green(s) == Styled(50, s)

cyan(s) == Styled(54, s)

\* The "* " that format!("* {}", ..) puts in front.
Marker == <<42, 32>>

\* A mutation of the presenter: "master" is decorated before the checked-out
\* branch is looked at.
LabelMasterFirst(b) ==
    IF b.name = master THEN green(b.name)
    ELSE IF is_head(b) THEN Marker \o green(b.name)
    ELSE b.name

\* A mutation of the presenter: the "master" case is lost.
LabelMasterPlain(b) == IF is_head(b) THEN Marker \o green(b.name) ELSE b.name

\* The label of one record (main.rs:117-123).
Label(b) ==
    IF is_head(b) THEN Marker \o green(b.name)
    ELSE IF b.name = master THEN green(b.name)
    ELSE b.name

\* A mutation of the presenter: the checked-out branch's label is moved to
\* the top of the list.
get_branch_names_head_first(v) ==
    LET w == SelectSeq(v, LAMBDA b : is_head(b)) \o SelectSeq(v, LAMBDA b : ~is_head(b))
    IN  [i \in 1..Len(v) |-> Label(w[i])]

get_branch_names(v) == [i \in 1..Len(v) |-> Label(v[i])]

\* ---------------------------------------------------------------- printing

\* Oid::to_string: two lowercase hexadecimal digits a byte.
HexDigit(d) == IF d < 10 THEN 48 + d ELSE 87 + d

OidToString(id) ==
    [i \in 1..(2 * Len(id)) |->
        IF i % 2 = 1 THEN HexDigit(id[(i + 1) \div 2] \div 16)
        ELSE HexDigit(id[i \div 2] % 16)]

NoBranchesMsg == <<"No local branches found">>

GuardMsg == <<"Cannot delete master or current branch">>

CancelMsg == <<"No branch selected, exiting">>

LastCommitMsg(b) ==
    <<"Last commit", SubSeq(OidToString(b.last_commit.id), 1, 7),
      <<b.last_commit.time>>, b.last_commit.message>>

DeletedText == "Branch deleted. To undo this action, run: git checkout -b"

DeletedMsg(b) ==
    <<DeletedText, cyan(b.name), b.name, OidToString(b.last_commit.id)>>

NotDeletedText == "Branch not deleted"

NotDeletedMsg(b) == <<NotDeletedText, cyan(b.name)>>

\* --------------------------------------------------------------- the loop

\* The repositories a run can start in: at most MaxBranches local branches,
\* each on any id, HEAD on one of them or on none.
Repositories ==
    UNION { [S -> Oids] : S \in { T \in SUBSET BranchNames : Cardinality(T) <= MaxBranches } }

\* The orders in which the repository can yield the references of S.
Orders(S) ==
    { o \in [1..Cardinality(S) -> S] : \A i, j \in 1..Cardinality(S) : o[i] = o[j] => i = j }

NoInput == [prompt |-> "none", index |-> -1, key |-> "none"]

NoHist == [event |-> "None", records |-> <<>>, index |-> -1]

Init ==
    /\ branches \in Repositories
    /\ head \in (DOMAIN branches) \cup {NoBranch}
    /\ colors \in BOOLEAN
    /\ pc = "Start"
    /\ err = NoError
    /\ local_branches = <<>>
    /\ branch_names = <<>>
    /\ branch_index = -1
    /\ out = <<>>
    /\ input = NoInput
    /\ hist = NoHist

\* A mutation of `?`: the error is noted and the loop goes on.
RaiseAndRetry(e) ==
    /\ pc' = "Listing"
    /\ err' = e
    /\ UNCHANGED <<branches, head, colors, local_branches, branch_names,
                   branch_index, out, hist>>

\* A mutation of the failing deletion: main returns the error with the
\* selected reference already gone.
RaiseHalfDeleted(e) ==
    /\ pc' = "Error"
    /\ err' = e
    /\ branches' = IF e.at = "delete"
                   THEN [n \in (DOMAIN branches) \ {Index(local_branches, branch_index).name}
                            |-> branches[n]]
                   ELSE branches
    /\ UNCHANGED <<head, colors, local_branches, branch_names,
                   branch_index, out, hist>>

\* The `?` of main: the error leaves main at once, which ends the process
\* with a non-zero status.
Raise(e) ==
    /\ pc' = "Error"
    /\ err' = e
    /\ UNCHANGED <<branches, head, colors, local_branches, branch_names,
                   branch_index, out, hist>>

\* The end of one iteration: the records and labels are dropped and the loop
\* is back at its head.
Reloop(event, i) ==
    /\ pc' = "Listing"
    /\ hist' = [event |-> event, records |-> local_branches, index |-> i]
    /\ local_branches' = <<>>
    /\ branch_names' = <<>>
    /\ branch_index' = -1

\* Repository::open_from_env()? (main.rs:8)
Open ==
    /\ pc = "Start"
    /\ \E found \in BOOLEAN :
          IF found
          THEN /\ pc' = "Listing"
               /\ UNCHANGED <<branches, head, colors, err, local_branches,
                              branch_names, branch_index, out, input, hist>>
          ELSE Raise([kind |-> "GitError", at |-> "open_from_env"]) /\ UNCHANGED input

\* A mutation of the empty check: the prompt is built whatever the list holds.
NeverEmpty(v) == FALSE

\* Vec::is_empty (main.rs:15)
is_empty(v) == Len(v) = 0

\* The head of the loop up to the selection prompt (main.rs:11-22): the
\* enumeration, the labels, and the empty case.
Enumerate ==
    /\ pc = "Listing"
    /\ Len(out) < MaxOut
    /\ \E order \in Orders(DOMAIN branches), readable \in BOOLEAN :
          LET r == get_branches(order, readable)
              names == get_branch_names(r.val)
          IN  IF ~r.ok THEN Raise(r.err) /\ UNCHANGED input
              ELSE IF is_empty(names)
              THEN /\ out' = Append(out, NoBranchesMsg)
                   /\ pc' = "Listing"
                   /\ hist' = [event |-> "Empty", records |-> r.val, index |-> -1]
                   /\ UNCHANGED <<branches, head, colors, err, local_branches,
                                  branch_names, branch_index, input>>
              ELSE /\ local_branches' = r.val
                   /\ branch_names' = names
                   /\ pc' = "Select"
                   /\ UNCHANGED <<branches, head, colors, err, branch_index,
                                  out, input, hist>>

\* A mutation of the guard: the checked-out branch alone is protected.
GuardedHeadOnly(b) == is_head(b)

\* The guard of main.rs:28.
Guarded(b) == b.name = master \/ is_head(b)

\* The selection prompt answered with an index (main.rs:25-47, up to the
\* confirmation prompt).
Select(i) ==
    /\ pc = "Select"
    /\ input' = [prompt |-> "select", index |-> i, key |-> "enter"]
    /\ LET branch_info == Index(local_branches, i)
       IN  IF Guarded(branch_info)
           THEN /\ out' = Append(out, GuardMsg)
                /\ Reloop("Guard", i)
                /\ UNCHANGED <<branches, head, colors, err>>
           ELSE /\ out' = Append(out, LastCommitMsg(branch_info))
                /\ branch_index' = i
                /\ pc' = "Confirm"
                /\ UNCHANGED <<branches, head, colors, err, local_branches,
                               branch_names, hist>>

\* A mutation of the cancel arm: `continue` in the place of `break`.
AfterCancelContinue == "Listing"

\* Where `break` and the Ok(()) behind the loop leave main (main.rs:68-74).
AfterCancel == "Exit0"

\* The selection prompt cancelled with Esc or q: Ok(None) (main.rs:66-74).
Cancel ==
    /\ pc = "Select"
    /\ input' = [prompt |-> "select", index |-> -1, key |-> "esc"]
    /\ out' = Append(out, CancelMsg)
    /\ pc' = AfterCancel
    /\ UNCHANGED <<branches, head, colors, err, local_branches, branch_names,
                   branch_index, hist>>

\* interact_opt()? fails on the terminal (main.rs:22).
SelectFails ==
    /\ pc = "Select"
    /\ Raise([kind |-> "IOError", at |-> "interact_opt"])
    /\ UNCHANGED input

\* A mutation of the prompt: its answer is not looked at.
AnswerIgnored(key) == TRUE

\* A mutation of the prompt: the default is yes.
AnswerDefaultYes(key) == IF key = "enter" THEN TRUE ELSE key = "y"

\* Confirm with default(false) and wait_for_newline(true): the value the prompt
\* returns for the key typed before enter, "enter" being no key at all.
Answer(key) == IF key = "enter" THEN FALSE ELSE key = "y"

\* A mutation of the deletion: it goes through the handle of the enumeration,
\* which is the reference as it was read then.
DeleteBranchByHandle(name, writable) ==
    IF \/ name \notin DOMAIN branches
       \/ branches[name] # Index(local_branches, branch_index).last_commit.id
       \/ ~writable
       \/ head = name
    THEN Failure("GitError", "delete")
    ELSE Success([n \in (DOMAIN branches) \ {name} |-> branches[n]])

\* A mutation of the deletion: every reference on the branch's tip goes.
DeleteBranchByTip(name, writable) ==
    IF name \notin DOMAIN branches THEN Failure("GitError", "find_branch")
    ELSE IF ~writable \/ head = name THEN Failure("GitError", "delete")
    ELSE Success([n \in { m \in DOMAIN branches : branches[m] # branches[name] }
                     |-> branches[n]])

\* repo.find_branch(name, Local)? then branch.delete()? (main.rs:51-54): the
\* local branches after the call, or the failure. The lookup fails when no
\* local branch carries the name; the deletion fails when the reference
\* cannot be written, and libgit2 refuses the branch HEAD designates.
DeleteBranch(name, writable) ==
    IF name \notin DOMAIN branches THEN Failure("GitError", "find_branch")
    ELSE IF ~writable \/ head = name THEN Failure("GitError", "delete")
    ELSE Success([n \in (DOMAIN branches) \ {name} |-> branches[n]])

\* The confirmation prompt answered (main.rs:49-64).
Confirm(key) ==
    /\ pc = "Confirm"
    /\ input' = [prompt |-> "confirm", index |-> -1, key |-> key]
    /\ LET branch_info == Index(local_branches, branch_index)
       IN  IF Answer(key)
           THEN \E writable \in BOOLEAN :
                   LET d == DeleteBranch(branch_info.name, writable)
                   IN  IF ~d.ok THEN Raise(d.err)
                       ELSE /\ branches' = d.val
                            /\ out' = Append(out, DeletedMsg(branch_info))
                            /\ Reloop("Deleted", branch_index)
                            /\ UNCHANGED <<head, colors, err>>
           ELSE /\ out' = Append(out, NotDeletedMsg(branch_info))
                /\ Reloop("Declined", branch_index)
                /\ UNCHANGED <<branches, head, colors, err>>

\* interact()? fails on the terminal (main.rs:47).
ConfirmFails ==
    /\ pc = "Confirm"
    /\ Raise([kind |-> "IOError", at |-> "interact"])
    /\ UNCHANGED input

\* What the user can type at the confirmation prompt before enter.
Keys == {"y", "n", "enter"}

Next ==
    \/ Open
    \/ Enumerate
    \/ \E i \in 0..(Len(branch_names) - 1) : Select(i)
    \/ Cancel
    \/ SelectFails
    \/ \E key \in Keys : Confirm(key)
    \/ ConfirmFails

Spec == Init /\ [][Next]_vars

\* The repositories of the runs beside another writer: branches among "fix"
\* and "fix-y", each on a commit the lister can read.
SharedRepositories ==
    UNION { [S -> {OidOf(1), OidOf(2)}] : S \in SUBSET {fix, fix_y} }

InitShared ==
    /\ branches \in SharedRepositories
    /\ head \in (DOMAIN branches) \cup {NoBranch}
    /\ colors = FALSE
    /\ pc = "Start"
    /\ err = NoError
    /\ local_branches = <<>>
    /\ branch_names = <<>>
    /\ branch_index = -1
    /\ out = <<>>
    /\ input = NoInput
    /\ hist = NoHist

\* While main waits at a prompt, another process deletes the branch n, which
\* is not the checked-out one.
OtherDeletes(n) ==
    /\ pc \in {"Select", "Confirm"}
    /\ n \in DOMAIN branches
    /\ n # head
    /\ branches' = [m \in (DOMAIN branches) \ {n} |-> branches[m]]
    /\ UNCHANGED <<head, colors, pc, err, local_branches, branch_names,
                   branch_index, out, input, hist>>

\* While main waits at a prompt, another process moves the branch n to the
\* commit id (a commit, a reset).
OtherMoves(n, id) ==
    /\ pc \in {"Select", "Confirm"}
    /\ n \in DOMAIN branches
    /\ id # branches[n]
    /\ branches' = [branches EXCEPT ![n] = id]
    /\ UNCHANGED <<head, colors, pc, err, local_branches, branch_names,
                   branch_index, out, input, hist>>

NextShared ==
    \/ Next
    \/ \E n \in BranchNames : OtherDeletes(n)
    \/ \E n \in BranchNames, id \in {OidOf(1), OidOf(2)} : OtherMoves(n, id)

\* main beside another process that writes the repository while main waits
\* for the user.
SpecShared == InitShared /\ [][NextShared]_vars

\* The runs over commit times: a repository of one or two deletable branches
\* on one commit, made at any of TimePairs.
InitTime ==
    /\ branches \in UNION { { [n \in {fix_y} |-> TimeOid(p)],
                               [n \in {fix, fix_y} |-> TimeOid(p)] } : p \in TimePairs }
    /\ head = NoBranch
    /\ colors = FALSE
    /\ pc = "Start"
    /\ err = NoError
    /\ local_branches = <<>>
    /\ branch_names = <<>>
    /\ branch_index = -1
    /\ out = <<>>
    /\ input = NoInput
    /\ hist = NoHist

SpecTime == InitTime /\ [][Next]_vars

\* -------------------------------------------------- reading the properties

Names(v) == [i \in 1..Len(v) |-> v[i].name]

Last(s) == s[Len(s)]

\* v without its k-th element (k from 1).
Without(v, k) == [i \in 1..(Len(v) - 1) |-> IF i < k THEN v[i] ELSE v[i + 1]]

\* a is before b in the lexicographic order of byte strings: at the first
\* position where they differ a ends or holds the smaller byte.
LexLess(a, b) ==
    \E k \in 1..(Len(b)) :
        /\ \A i \in 1..(k - 1) : i <= Len(a) /\ a[i] = b[i]
        /\ (k = Len(a) + 1 \/ (k <= Len(a) /\ a[k] < b[k]))

StartsWith(s, p) == Len(s) >= Len(p) /\ SubSeq(s, 1, Len(p)) = p

EndsWith(s, p) == Len(s) >= Len(p) /\ SubSeq(s, Len(s) - Len(p) + 1, Len(s)) = p

SgrGreen == <<27, 91, 51, 50, 109>>

SgrReset == <<27, 91, 48, 109>>

HasMarker(l) == StartsWith(l, Marker)

Unmarked(l) == IF HasMarker(l) THEN SubSeq(l, Len(Marker) + 1, Len(l)) ELSE l

HasEmphasis(l) == StartsWith(Unmarked(l), SgrGreen) /\ EndsWith(Unmarked(l), SgrReset)

\* The branch name a label shows, marker and style taken off.
LabelName(l) ==
    IF HasEmphasis(l)
    THEN SubSeq(Unmarked(l), Len(SgrGreen) + 1, Len(Unmarked(l)) - Len(SgrReset))
    ELSE Unmarked(l)

\* The names the selection list shows, in its order.
Listing == [i \in 1..Len(branch_names) |-> LabelName(branch_names[i])]

Prompting == pc \in {"Select", "Confirm"}

\* The step is an answer to the selection prompt with an index.
Picks == pc = "Select" /\ pc' \in {"Listing", "Confirm"} /\ input'.index >= 0

\* The step is an enumeration that returned (get_branches gave Ok).
Enumerates == pc = "Listing" /\ pc' # "Error"

\* ------------------------------------------------------------------ claims

\* C1: when the record picked at the selection prompt is named "master" or is
\* the checked-out branch, the step prints the guard message and is back at
\* Listing, with no confirmation prompt and no deletion; and no step of any
\* run removes or moves the branch "master" or the checked-out branch.
C1_GuardProtectsMasterAndHead ==
    [][ /\ (Picks /\ LET b == Index(local_branches, input'.index)
                     IN  b.name = master \/ b.name = head)
           => /\ pc' = "Listing"
              /\ out' = Append(out, GuardMsg)
              /\ branches' = branches
        /\ \A n \in DOMAIN branches :
              (n = master \/ n = head)
                 => n \in DOMAIN branches' /\ branches'[n] = branches[n]
      ]_vars

\* C1 witness: after a deletion earlier in the run, "master" was picked while
\* another branch is checked out, and the guard sent the loop back.
C1_Witness ==
    /\ pc = "Listing"
    /\ hist.event = "Guard"
    /\ Index(hist.records, hist.index).name = master
    /\ head \in DOMAIN branches
    /\ head # master
    /\ Len(out) = 3
    /\ Last(out) = GuardMsg

\* C2: after a confirmed deletion of the picked branch b, the next enumeration
\* returns the records of the previous one without b's: the same names less b,
\* each with the same tip commit.
C2_DeletionRemovesExactlyTheBranch ==
    [][ (Enumerates /\ input.prompt = "confirm" /\ input.key = "y"
            /\ hist.event # "Empty")
           => /\ local_branches' = Without(hist.records, hist.index + 1)
              /\ DOMAIN branches
                    = { hist.records[i].name : i \in 1..Len(hist.records) }
                         \ {Index(hist.records, hist.index).name}
      ]_vars

\* C2 witness: a deletion was confirmed and the next enumeration still lists
\* two branches.
C2_Witness ==
    /\ pc = "Select"
    /\ input.prompt = "confirm"
    /\ input.key = "y"
    /\ hist.event = "Deleted"
    /\ Len(hist.records) = 3
    /\ Len(local_branches) = 2

\* C3: an answer "no" to the confirmation prompt, typed or by bare enter,
\* leaves the repository's branches as they are, and the next enumeration
\* returns the names the enumeration before the prompt returned.
C3_DecliningChangesNothing ==
    [][ /\ (pc = "Confirm" /\ input'.prompt = "confirm"
               /\ input'.key \in {"n", "enter"})
           => /\ branches' = branches
              /\ pc' = "Listing"
        /\ (Enumerates /\ input.prompt = "confirm"
               /\ input.key \in {"n", "enter"})
           => Names(local_branches') = Names(hist.records)
      ]_vars

\* C3 witness: the prompt was left with bare enter and the loop has listed the
\* branches again.
C3_Witness ==
    /\ pc = "Select"
    /\ input.prompt = "confirm"
    /\ input.key = "enter"
    /\ hist.event = "Declined"
    /\ Len(local_branches) >= 2

\* C4: whenever the selection list is shown, its labels name the repository's
\* local branches, one each, in the ascending lexicographic order of the
\* names, which is the order of the records.
C4_LabelsInNameOrder ==
    Prompting
       => /\ Listing = Names(local_branches)
          /\ { Listing[i] : i \in 1..Len(Listing) } = DOMAIN branches
          /\ \A i, j \in 1..Len(Listing) : i < j => LexLess(Listing[i], Listing[j])

\* C4 witness: a list of three labels, one of them marked and one named by a
\* proper prefix of another.
C4_Witness ==
    /\ pc = "Select"
    /\ Len(branch_names) = 3
    /\ fix \in DOMAIN branches
    /\ fix_y \in DOMAIN branches
    /\ head \in DOMAIN branches

\* C5 as claimed: with local branches master, feature-x and fix-y and
\* feature-x checked out, the list reads fix-y, feature-x, master.
C5_AsClaimed ==
    (pc = "Select" /\ DOMAIN branches = {master, feature_x, fix_y}
        /\ head = feature_x)
       => Listing = <<fix_y, feature_x, master>>

\* C5 amended: with local branches master, feature-x and fix-y and feature-x
\* checked out, the list reads feature-x, fix-y, master.
C5_ListingOfTheScenario ==
    (pc = "Select" /\ DOMAIN branches = {master, feature_x, fix_y}
        /\ head = feature_x)
       => Listing = <<feature_x, fix_y, master>>

\* C5 witness: the selection list of the scenario is on screen.
C5_Witness ==
    /\ pc = "Select"
    /\ DOMAIN branches = {master, feature_x, fix_y}
    /\ head = feature_x
    /\ Len(branch_names) = 3
    /\ out = <<>>

\* C6: in every list shown, the label of the checked-out branch starts with
\* the marker "* " and is styled (the style shows where the terminal takes
\* styles), no other label starts with the marker, so at most one does, and
\* none does when HEAD designates no local branch.
C6_MarkerOnHeadAlone ==
    Prompting
       => /\ \A i \in 1..Len(branch_names) :
                /\ HasMarker(branch_names[i]) <=> local_branches[i].name = head
                /\ (local_branches[i].name = head /\ colors)
                      => HasEmphasis(branch_names[i])
          /\ Cardinality({ i \in 1..Len(branch_names) : HasMarker(branch_names[i]) }) <= 1
          /\ head \notin DOMAIN branches
                => \A i \in 1..Len(branch_names) : ~HasMarker(branch_names[i])

\* C6 witness: "master" is checked out and listed with other branches on a
\* terminal that takes styles.
C6_Witness ==
    /\ pc = "Select"
    /\ head = master
    /\ colors
    /\ Len(branch_names) = 3
    /\ \E i \in 1..3 : HasMarker(branch_names[i]) /\ Listing[i] = master

\* C7: cancelling the selection prompt prints the cancellation notice and
\* ends main with Ok(()), with no confirmation prompt, no deletion and no
\* error; nothing happens after the exit; and when the prompt cancelled is the
\* first one of the run, the notice is all the run has printed.
C7_CancelExitsWithSuccess ==
    [][ /\ (pc = "Select" /\ input'.key = "esc")
           => /\ pc' = "Exit0"
              /\ err' = NoError
              /\ out' = Append(out, CancelMsg)
              /\ branches' = branches
              /\ input = NoInput => out' = <<CancelMsg>>
        /\ pc = "Exit0" => FALSE
      ]_vars

\* C7 witness: the first prompt of a run over three branches was cancelled.
C7_Witness ==
    /\ pc = "Exit0"
    /\ input.key = "esc"
    /\ out = <<CancelMsg>>
    /\ Cardinality(DOMAIN branches) = 3

\* C8: an enumeration that returns no branch prints "No local branches found"
\* and goes back to the head of the loop: no error, no prompt answered, no
\* deletion.
C8_EmptyListIsReported ==
    [][ (pc = "Listing" /\ DOMAIN branches = {}
            /\ ~(pc' = "Error" /\ err'.at = "branches"))
           => /\ pc' = "Listing"
              /\ out' = Append(out, NoBranchesMsg)
              /\ err' = NoError
              /\ branches' = branches
              /\ input' = input
              /\ local_branches' = <<>>
              /\ branch_names' = <<>>
      ]_vars

\* C8 witness: the first enumeration of a run returned nothing.
C8_Witness ==
    /\ pc = "Listing"
    /\ hist.event = "Empty"
    /\ out = <<NoBranchesMsg>>
    /\ input = NoInput

\* C9: while the repository has no local branch, main is at the head of the
\* loop (or has not opened the repository yet, or the repository access itself
\* has failed): no prompt is on screen, cancelling is not possible, main has
\* not returned Ok(()), and every enumeration that returns leads back to the
\* head of the loop with the repository still empty.
C9_EmptyRepositoryLoopsForever ==
    /\ [](DOMAIN branches = {}
            => /\ pc \in {"Start", "Listing", "Error"}
               /\ ~ENABLED Cancel
               /\ pc = "Error" => err.at \in {"open_from_env", "branches"})
    /\ [][ (Enumerates /\ DOMAIN branches = {})
              => pc' = "Listing" /\ DOMAIN branches' = {} ]_vars

\* C9 witness: the loop has gone round as often as the bound on the output
\* lets it, over an empty repository.
C9_Witness ==
    /\ pc = "Listing"
    /\ DOMAIN branches = {}
    /\ Len(out) = MaxOut
    /\ \A i \in 1..Len(out) : out[i] = NoBranchesMsg

\* Some reference of the repository makes get_branches fail.
Unlistable ==
    \E n \in DOMAIN branches :
        \/ ~Utf8Valid(n)
        \/ ~HasCommit(branches[n])
        \/ ~Utf8Valid(CommitOf(branches[n]).message)

\* C10: an error ends the run in the error exit at once: main is in the error
\* exit exactly when an error was raised; the step that raises it prints
\* nothing and deletes nothing; an enumeration over a reference that cannot be
\* listed raises one; and after the error exit nothing happens any more.
C10_ErrorsEndTheRun ==
    /\ [](pc = "Error" <=> err # NoError)
    /\ [][ /\ err' # err => pc' = "Error" /\ out' = out /\ branches' = branches
           /\ (pc = "Listing" /\ Unlistable) => pc' = "Error"
           /\ pc = "Error" => FALSE
         ]_vars

\* C10 witness: after one deletion in the run, a second confirmed deletion
\* failed and main returned the error.
C10_Witness ==
    /\ pc = "Error"
    /\ err = [kind |-> "GitError", at |-> "delete"]
    /\ hist.event = "Deleted"
    /\ Len(out) = 3

\* The repository holds the records' branches, each on the tip the record has.
AsEnumerated(v) ==
    /\ { v[i].name : i \in 1..Len(v) } = DOMAIN branches
    /\ \A i \in 1..Len(v) : branches[v[i].name] = v[i].last_commit.id

\* C11: when the lookup or the deletion of the selected branch fails, the run
\* ends in the error exit with the repository as it was before the attempt:
\* the failing step changes no branch and no tip and leaves HEAD, and in the
\* error exit every enumerated branch, the selected one too, is on its tip.
C11_FailedDeletionLeavesRepository ==
    /\ []((pc = "Error" /\ err.at \in {"find_branch", "delete"})
            => /\ AsEnumerated(local_branches)
               /\ Index(local_branches, branch_index).name \in DOMAIN branches)
    /\ [][ (pc = "Confirm" /\ pc' = "Error")
              => branches' = branches /\ head' = head /\ out' = out ]_vars

\* C11 witness: a confirmed deletion failed on a repository of three branches.
C11_Witness ==
    /\ pc = "Error"
    /\ err.at = "delete"
    /\ input.key = "y"
    /\ Cardinality(DOMAIN branches) = 3
    /\ Len(local_branches) = 3

\* The instant a stored time stands for, in seconds from the epoch.
Instant(t) == t.days * 86400 + t.secs

\* C12: the time stored in a record is the naive timestamp of the commit's
\* seconds advanced by its offset in minutes, the instant
\* seconds + 60 * offset as a day and a second of that day, and it is the same
\* for every record of the same commit, in this enumeration and the one before.
C12_TimeIsSecondsPlusOffsetMinutes ==
    \A i \in 1..Len(local_branches) :
        LET t == local_branches[i].last_commit.time
            c == CommitOf(local_branches[i].last_commit.id)
        IN  /\ Instant(t) = c.seconds + 60 * c.offset
            /\ t.secs \in 0..86399
            /\ \A j \in 1..Len(local_branches) :
                  local_branches[j].last_commit.id = c.id
                     => local_branches[j].last_commit.time = t
            /\ \A j \in 1..Len(hist.records) :
                  hist.records[j].last_commit.id = c.id
                     => hist.records[j].last_commit.time = t

\* C12 witness: a commit made a second before the day before the epoch, twelve
\* hours west, is listed for two branches a second time: its stored time is in
\* the second day before the epoch.
C12_Witness ==
    /\ pc = "Select"
    /\ hist.event = "Declined"
    /\ Len(local_branches) = 2
    /\ local_branches[1].last_commit.time = [days |-> -2, secs |-> 43199]
    /\ local_branches[2].last_commit.time = [days |-> -2, secs |-> 43199]

\* The bytes of s in the emphasis style, as the terminal is given them.
Emphasised(s) == IF colors THEN SgrGreen \o s \o SgrReset ELSE s

\* C13: the labels are one a record, in the records' order: "* " and the
\* emphasised name for the checked-out branch, "master" too; the emphasised
\* name with no marker for "master" when it is not checked out; the bare name
\* for every other branch.
C13_LabelsByCase ==
    Prompting
       => /\ Len(branch_names) = Len(local_branches)
          /\ \A i \in 1..Len(local_branches) :
                LET n == local_branches[i].name
                IN  /\ n = head => branch_names[i] = <<42, 32>> \o Emphasised(n)
                    /\ (n # head /\ n = master) => branch_names[i] = Emphasised(n)
                    /\ (n # head /\ n # master) => branch_names[i] = n

\* C13 witness: a styled list of a checked-out branch, "master" not checked
\* out, and a third branch.
C13_Witness ==
    /\ pc = "Select"
    /\ colors
    /\ Len(branch_names) = 3
    /\ head = fix
    /\ master \in DOMAIN branches
    /\ branch_names[1] = <<42, 32>> \o SgrGreen \o fix \o SgrReset
    /\ branch_names[2] = fix_y
    /\ branch_names[3] = SgrGreen \o master \o SgrReset

\* C14: the repository's branches change only in the step that answers the
\* confirmation prompt with "y", the prompt being the one of the iteration in
\* which the branch was picked; what goes is the picked record's name and
\* nothing else, and the iteration ends with that step; any other answer, bare
\* enter too, deletes nothing.
C14_DeletionOnlyOnYes ==
    [][ /\ branches' # branches
           => /\ pc = "Confirm"
              /\ input'.prompt = "confirm"
              /\ input'.key = "y"
              /\ input.prompt = "select"
              /\ input.index = branch_index
              /\ LET n == local_branches[input.index + 1].name
                 IN  /\ n \in DOMAIN branches
                     /\ branches' = [m \in (DOMAIN branches) \ {n} |-> branches[m]]
              /\ pc' = "Listing"
        /\ (pc = "Confirm" /\ input'.prompt = "confirm" /\ input'.key # "y")
           => branches' = branches /\ out' = Append(out, NotDeletedMsg(Index(local_branches, branch_index)))
      ]_vars

\* C14 witness: two iterations of one run have each deleted one branch.
C14_Witness ==
    /\ pc = "Listing"
    /\ hist.event = "Deleted"
    /\ input.key = "y"
    /\ Len(out) = 4
    /\ out[2][1] = out[4][1]
    /\ out[2][3] # out[4][3]
    /\ Cardinality(DOMAIN branches) = 1

\* The step prints the line that ends an iteration without leaving the loop:
\* the guard message, "not deleted" or "deleted".
EndsIteration ==
    /\ out' # out
    /\ Last(out')[1] \in {GuardMsg[1], NotDeletedText, DeletedText}

\* C15: a guard rejection, a declined confirmation and a deletion each lead
\* back to the head of the loop with the iteration's records and labels
\* dropped; the records a prompt works on are the repository's branches as
\* they are, each on its tip, so none is older than the last deletion, and no
\* branch the run has deleted is among them.
C15_EveryListingIsAFreshEnumeration ==
    /\ [](Prompting
            => /\ AsEnumerated(local_branches)
               /\ \A k \in 1..Len(out) :
                     out[k][1] = DeletedText
                        => \A i \in 1..Len(local_branches) :
                              local_branches[i].name # out[k][3])
    /\ [][ EndsIteration
              => /\ pc' = "Listing"
                 /\ local_branches' = <<>>
                 /\ branch_names' = <<>>
                 /\ branch_index' = -1 ]_vars

\* C15 witness: after a deletion the list is on screen again, with the two
\* branches that are left.
C15_Witness ==
    /\ pc = "Select"
    /\ Len(out) = 2
    /\ out[2][1] = DeletedText
    /\ hist.event = "Deleted"
    /\ Len(hist.records) = 3
    /\ Len(local_branches) = 2

\* C16: the deletion step looks the picked record's name up in the repository
\* as it is when the prompt is answered: when no local branch carries the name
\* any more, the lookup fails with a repository error and nothing is deleted;
\* otherwise the reference now under that name goes, whatever its tip has
\* become, or the deletion fails and nothing goes; and while the name is there
\* and not checked out, the deletion can go through.
C16_DeletionLooksUpByName ==
    /\ []((pc = "Confirm"
             /\ Index(local_branches, branch_index).name \in DOMAIN branches
             /\ Index(local_branches, branch_index).name # head)
            => ENABLED (Confirm("y") /\ pc' = "Listing"))
    /\ [][ (pc = "Confirm" /\ input'.prompt = "confirm" /\ input'.key = "y")
              => LET n == Index(local_branches, branch_index).name
                 IN  IF n \notin DOMAIN branches
                     THEN /\ pc' = "Error"
                          /\ err' = [kind |-> "GitError", at |-> "find_branch"]
                          /\ branches' = branches
                     ELSE \/ /\ pc' = "Error"
                             /\ err' = [kind |-> "GitError", at |-> "delete"]
                             /\ branches' = branches
                          \/ /\ pc' = "Listing"
                             /\ branches' = [m \in (DOMAIN branches) \ {n} |-> branches[m]]
         ]_vars

\* C16 witness: the picked branch was deleted by another process while the
\* confirmation prompt waited, and the lookup failed.
C16_Witness ==
    /\ pc = "Error"
    /\ err = [kind |-> "GitError", at |-> "find_branch"]
    /\ input.key = "y"
    /\ Index(local_branches, branch_index).name \notin DOMAIN branches
    /\ Cardinality(DOMAIN branches) = 1

\* C17 as claimed: the recovery command printed after a deletion names the
\* deleted branch and the commit that was its tip right before the deletion.
C17_RecoveryNamesPriorTip ==
    [][ (out' # out /\ Last(out')[1] = DeletedText)
           => LET n == Last(out')[3]
              IN  /\ n \in DOMAIN branches
                  /\ n \notin DOMAIN branches'
                  /\ Last(out')[4] = OidToString(branches[n])
      ]_vars


\* C18: the list shown has one label a record, the i-th label showing the
\* i-th record's name, so an index the selection prompt returns is an index
\* of the records; at the confirmation prompt the index picked is within the
\* records, and the record whose commit was printed and whose deletion is
\* asked is the one whose label was picked.
C18_IndexPicksTheLabelledRecord ==
    /\ Prompting
          => /\ Len(branch_names) = Len(local_branches)
             /\ Len(local_branches) > 0
             /\ \A i \in 1..Len(branch_names) :
                   LabelName(branch_names[i]) = local_branches[i].name
    /\ pc = "Confirm"
          => /\ branch_index \in 0..(Len(local_branches) - 1)
             /\ input = [prompt |-> "select", index |-> branch_index, key |-> "enter"]
             /\ Last(out) = LastCommitMsg(local_branches[input.index + 1])
             /\ LabelName(branch_names[input.index + 1])
                   = Index(local_branches, branch_index).name
    /\ (pc = "Listing" /\ hist.event = "Guard")
          => /\ input.index = hist.index
             /\ hist.index \in 0..(Len(hist.records) - 1)
             /\ LET b == hist.records[input.index + 1]
                IN  b.name = master \/ b.name = head

\* C18 witness: the last of three labels was picked, below the label of the
\* checked-out branch, and its record is the one the confirmation asks about.
C18_Witness ==
    /\ pc = "Confirm"
    /\ Len(local_branches) = 3
    /\ branch_index = 2
    /\ local_branches[3].name = fix_y
    /\ head = fix

====
